---- MODULE Spec2Model ----
(***************************************************************************)
(* The investment ledger of DecentralizedVentures.                         *)
(*                                                                         *)
(* Two independent implementations keep a log of investment transactions   *)
(* and a per-startup aggregate (fundingRaised, investors):                 *)
(*   - the server ledger, MemStorage behind the Express routes             *)
(*     (src/server/storage.ts, src/server/routes.ts);                      *)
(*   - the client ledger, the Firestore functions the React client calls   *)
(*     (src/client/src/firebase/firestore.ts), driven by InvestmentModal.  *)
(* The two never share state; a behaviour exercises one of them, named by  *)
(* the variable ledger.                                                    *)
(***************************************************************************)
EXTENDS Integers, Sequences, FiniteSets, TLC

\* ------------------------------------------------------------------ bounds
\* Most transaction records a ledger holds in one behaviour.
MaxTx == 2
\* Most startup records a ledger holds in one behaviour.
MaxStartups == 2
\* Most calls in flight at once.
MaxInFlight == 2

\* ------------------------------------------------------------- input sets
\* An absent string: undefined / null.
None == "none"
\* An absent record: undefined from a Map, a document that does not exist.
Missing == [exists |-> FALSE]
\* Firebase ids of startups (Startup.firebaseId, Firestore document ids).
StartupIds == {"s1", "s2"}
\* Investor uids.
Investors == {"i1", "i2"}
\* fundingGoal of a created startup.
Goals == {4}
Methods == {"metamask", "upi"}
Statuses == {"pending", "completed", "failed"}
\* A status the PATCH route refuses.
BadStatus == "refunded"
\* Rail references (transaction hash, UPI reference); None when not given.
Hashes == {"h1"}

VARIABLES
    ledger,                \* "server" or "client": the implementation exercised
    startups,              \* MemStorage.startups, by id (insertion order)
    transactions,          \* MemStorage.transactions, by id (insertion order)
    currentStartupId,      \* MemStorage.currentStartupId
    currentTransactionId,  \* MemStorage.currentTransactionId
    fsStartups,            \* Firestore collection 'startups', by document id
    fsTransactions,        \* Firestore collection 'transactions', by document id
    response,              \* outcome of the call that finished last
    lastCall,              \* the call that finished last: what was asked, and
                           \* the status it found (previousStatus)
    calls,                 \* the calls in flight, suspended at an await
    modal                  \* InvestmentModal: its state and its handleSubmit run

vars == <<ledger, startups, transactions, currentStartupId, currentTransactionId,
          fsStartups, fsTransactions, response, lastCall, calls, modal>>

srvVars == <<startups, transactions, currentStartupId, currentTransactionId>>
fsVars == <<fsStartups, fsTransactions>>

\* A slot of calls that holds no call.
Idle == [pc |-> "idle"]

\* The slot a new call takes: the lowest idle one.
FreeSlot(c) ==
    /\ calls[c] = Idle
    /\ \A d \in 1..(c - 1) : calls[d] # Idle

\* No call is in flight.
Quiescent == \A c \in 1..MaxInFlight : calls[c] = Idle

\* The record of a finished call.
Call(op, status, previousStatus) ==
    [op |-> op, status |-> status, previousStatus |-> previousStatus]

\* ------------------------------------------------ MemStorage (the server)

\* Array.from(this.startups.values()).find(s => s.firebaseId === firebaseId)
getStartupByFirebaseId(sts, firebaseId) ==
    IF \E i \in 1..Len(sts) : sts[i].firebaseId = firebaseId
    THEN sts[CHOOSE i \in 1..Len(sts) :
                 /\ sts[i].firebaseId = firebaseId
                 /\ \A j \in 1..(i - 1) : sts[j].firebaseId # firebaseId]
    ELSE Missing

\* this.transactions.get(id)
getTransactionById(txs, id) ==
    IF id \in 1..Len(txs) THEN txs[id] ELSE Missing

\* .filter(t => t.startupId === transaction.startupId && t.status === 'completed')
completedTransactions(txs, startupId) ==
    {i \in 1..Len(txs) : txs[i].startupId = startupId /\ txs[i].status = "completed"}

RECURSIVE sumAmounts(_, _)
\* reduce((sum, t) => sum + Number(t.amount), 0) over the records ids selects
sumAmounts(txs, ids) ==
    IF ids = {} THEN 0
    ELSE LET i == CHOOSE j \in ids : TRUE
         IN  txs[i].amount + sumAmounts(txs, ids \ {i})

totalFunding(txs, startupId) ==
    sumAmounts(txs, completedTransactions(txs, startupId))

\* new Set(completedTransactions.map(t => t.investorId)).size
uniqueInvestors(txs, startupId) ==
    Cardinality({txs[i].investorId : i \in completedTransactions(txs, startupId)})

\* The write of updateStartupFunding put on every startup.
updateStartupFundingWrite_EveryStartup(sts, txs, startup, transaction) ==
    IF startup = Missing THEN sts
    ELSE [i \in 1..Len(sts) |->
              [sts[i] EXCEPT !.fundingRaised = totalFunding(txs, transaction.startupId),
                             !.investors = uniqueInvestors(txs, transaction.startupId)]]

\* The part of updateStartupFunding after its await: startup is the record
\* getStartupByFirebaseId returned before the await.
updateStartupFundingWrite(sts, txs, startup, transaction) ==
    IF startup = Missing THEN sts
    ELSE [sts EXCEPT ![startup.id] =
              [startup EXCEPT !.fundingRaised = totalFunding(txs, transaction.startupId),
                              !.investors = uniqueInvestors(txs, transaction.startupId)]]

\* updateStartupFunding run without interleaving.
updateStartupFunding(sts, txs, transaction) ==
    updateStartupFundingWrite(sts, txs,
        getStartupByFirebaseId(sts, transaction.startupId), transaction)

\* The record createStartup stores.
newStartup(id, firebaseId, fundingGoal) ==
    [id |-> id, firebaseId |-> firebaseId, fundingGoal |-> fundingGoal,
     fundingRaised |-> 0, investors |-> 0]

\* The record createTransaction stores: { id, ...insertTransaction, createdAt }.
\* createdAt is the instant of creation; instants are numbered in the order
\* the records are created.
newTransaction(id, input) ==
    [id |-> id, investorId |-> input.investorId, startupId |-> input.startupId,
     amount |-> input.amount, method |-> input.method, status |-> input.status,
     transactionId |-> input.transactionId, createdAt |-> id]

\* The rewrite taking transactionId from the argument alone.
updatedTransaction_HashOnly(transaction, status, transactionHash) ==
    [transaction EXCEPT !.status = status, !.transactionId = transactionHash]

\* { ...transaction, status, transactionId: transactionHash || transaction.transactionId }
updatedTransaction(transaction, status, transactionHash) ==
    [transaction EXCEPT
        !.status = status,
        !.transactionId = IF transactionHash # None THEN transactionHash
                          ELSE transaction.transactionId]

\* The condition under which updateTransactionStatus recomputes the aggregate.
fundingAffected(status, previousStatus) ==
    \/ status = "completed" /\ previousStatus # "completed"
    \/ status # "completed" /\ previousStatus = "completed"

\* this.startups.get(id)
getStartupById(sts, id) ==
    IF id \in 1..Len(sts) THEN sts[id] ELSE Missing

\* getTransactionsByStartupId(startupId), as the ids of the records
getTransactionsByStartupId(txs, startupId) ==
    {i \in 1..Len(txs) : txs[i].startupId = startupId}

\* getStartupStats with progress as the plain ratio.
getStartupStats_Ratio(sts, txs, id) ==
    LET startup == getStartupById(sts, id)
        completed == {i \in getTransactionsByStartupId(txs, startup.firebaseId) :
                         txs[i].status = "completed"}
    IN  [fundingRaised |-> startup.fundingRaised,
         fundingGoal |-> startup.fundingGoal,
         progress |-> IF startup.fundingGoal > 0
                      THEN startup.fundingRaised \div startup.fundingGoal
                      ELSE 0,
         investors |-> Cardinality({txs[i].investorId : i \in completed}),
         totalTransactions |-> Cardinality(completed)]

\* What getStartupStats returns for a startup that exists. fundingGoal > 0
\* divides fundingRaised * 100 for every goal and amount in the input sets,
\* so the division is exact.
getStartupStats(sts, txs, id) ==
    LET startup == getStartupById(sts, id)
        completed == {i \in getTransactionsByStartupId(txs, startup.firebaseId) :
                         txs[i].status = "completed"}
    IN  [fundingRaised |-> startup.fundingRaised,
         fundingGoal |-> startup.fundingGoal,
         progress |-> IF startup.fundingGoal > 0
                      THEN (startup.fundingRaised * 100) \div startup.fundingGoal
                      ELSE 0,
         investors |-> Cardinality({txs[i].investorId : i \in completed}),
         totalTransactions |-> Cardinality(completed)]

\* Requests a caller can send. Two profiles keep the state space small.
\* LedgerInputs vary who invests how much in which startup, with any status:
\* investor i1 puts 1 into s1 or s2, investor i2 puts 2 into s1.
Investments ==
    {[investorId |-> "i1", startupId |-> "s1", amount |-> 1],
     [investorId |-> "i2", startupId |-> "s1", amount |-> 2],
     [investorId |-> "i1", startupId |-> "s2", amount |-> 1]}

LedgerInputs ==
    {[investorId |-> v.investorId, startupId |-> v.startupId, amount |-> v.amount,
      method |-> "metamask", status |-> st, transactionId |-> None] :
        v \in Investments, st \in Statuses}

\* RailInputs vary the rail, its reference and the status of one investment.
\* ConcInputs are the investments in one campaign, pending or completed, for
\* the calls that interleave.
ConcInputs ==
    {input \in LedgerInputs : input.startupId = "s1" /\ input.status # "failed"}

\* FrameInputs are investor i1's completed investments in two campaigns.
FrameInputs ==
    {input \in LedgerInputs : input.investorId = "i1" /\ input.status = "completed"}

\* A wallet transfer starts without a reference, a UPI transfer carries one.
Rails ==
    {[method |-> "metamask", transactionId |-> None],
     [method |-> "upi", transactionId |-> "h1"]}

RailInputs ==
    {[investorId |-> "i1", startupId |-> "s1", amount |-> 1,
      method |-> r.method, status |-> st, transactionId |-> r.transactionId] :
        r \in Rails, st \in Statuses}

\* AmountInputs vary the amount of one investment around zero.
RequestAmounts == {-1, 0, 1}

AmountInputs ==
    {[investorId |-> "i1", startupId |-> "s1", amount |-> a,
      method |-> "metamask", status |-> st, transactionId |-> None] :
        a \in RequestAmounts, st \in Statuses}

\* POST /api/startups -> MemStorage.createStartup, run to completion.
PostStartup(firebaseId, fundingGoal) ==
    /\ ledger = "server"
    /\ Len(startups) < MaxStartups
    /\ startups' = Append(startups, newStartup(currentStartupId, firebaseId, fundingGoal))
    /\ currentStartupId' = currentStartupId + 1
    /\ response' = "201"
    /\ lastCall' = Call("createStartup", None, None)
    /\ UNCHANGED <<ledger, modal, calls, transactions, currentTransactionId, fsVars>>

\* POST /api/transactions -> MemStorage.createTransaction, run to completion.
PostTransaction(input) ==
    /\ ledger = "server"
    /\ Len(transactions) < MaxTx
    /\ LET transaction == newTransaction(currentTransactionId, input)
           txs == Append(transactions, transaction)
       IN  /\ transactions' = txs
           /\ startups' = IF transaction.status = "completed"
                          THEN updateStartupFunding(startups, txs, transaction)
                          ELSE startups
    /\ currentTransactionId' = currentTransactionId + 1
    /\ response' = "201"
    /\ lastCall' = Call("createTransaction", input.status, None)
    /\ UNCHANGED <<ledger, modal, calls, currentStartupId, fsVars>>

\* PATCH /api/transactions/:id/status -> MemStorage.updateTransactionStatus,
\* run to completion.
PatchTransactionStatus(id, status, transactionHash) ==
    /\ ledger = "server"
    /\ lastCall' = Call("updateTransactionStatus", status,
                        IF status \in Statuses /\ id \in 1..Len(transactions)
                        THEN transactions[id].status ELSE None)
    /\ IF status \notin Statuses
       THEN /\ response' = "400"
            /\ UNCHANGED srvVars
       ELSE LET transaction == getTransactionById(transactions, id)
            IN  IF transaction = Missing
                THEN /\ response' = "404"
                     /\ UNCHANGED srvVars
                ELSE LET updated == updatedTransaction(transaction, status, transactionHash)
                         txs == [transactions EXCEPT ![id] = updated]
                     IN  /\ transactions' = txs
                         /\ startups' =
                              IF fundingAffected(status, transaction.status)
                              THEN updateStartupFunding(startups, txs, updated)
                              ELSE startups
                         /\ response' = "200"
                         /\ UNCHANGED <<currentStartupId, currentTransactionId>>
    /\ UNCHANGED <<ledger, modal, calls, fsVars>>

\* Bodies of PATCH /api/startups/:id: the insertStartupSchema fields sent.
StartupUpdates ==
    {[firebaseId |-> f] : f \in StartupIds} \cup {[fundingGoal |-> g] : g \in Goals}

\* { ...startup, ...data } in updateStartup
updatedStartup(startup, data) ==
    [startup EXCEPT
        !.firebaseId = IF "firebaseId" \in DOMAIN data THEN data.firebaseId ELSE @,
        !.fundingGoal = IF "fundingGoal" \in DOMAIN data THEN data.fundingGoal ELSE @]

\* PATCH /api/startups/:id -> MemStorage.updateStartup, run to completion.
PatchStartup(id, data) ==
    /\ ledger = "server"
    /\ IF getStartupById(startups, id) = Missing
       THEN /\ response' = "404"
            /\ UNCHANGED startups
       ELSE /\ startups' = [startups EXCEPT ![id] = updatedStartup(@, data)]
            /\ response' = "200"
    /\ lastCall' = Call("updateStartup", None, None)
    /\ UNCHANGED <<ledger, modal, calls, transactions, currentStartupId,
                   currentTransactionId, fsVars>>

\* MemStorage.createTransaction run to completion, as a function of the maps.
createTransactionRun(sts, txs, id, input) ==
    LET transaction == newTransaction(id, input)
        stored == Append(txs, transaction)
    IN  [transactions |-> stored,
         startups |-> IF transaction.status = "completed"
                      THEN updateStartupFunding(sts, stored, transaction)
                      ELSE sts]

\* MemStorage.updateTransactionStatus run to completion, as a function of
\* the maps.
updateTransactionStatusRun(sts, txs, id, status, transactionHash) ==
    LET transaction == getTransactionById(txs, id)
    IN  IF transaction = Missing
        THEN [transactions |-> txs, startups |-> sts]
        ELSE LET updated == updatedTransaction(transaction, status, transactionHash)
                 stored == [txs EXCEPT ![id] = updated]
             IN  [transactions |-> stored,
                  startups |-> IF fundingAffected(status, transaction.status)
                               THEN updateStartupFunding(sts, stored, updated)
                               ELSE sts]

\* One client opens an investment, confirms it and reverses it: POST
\* /api/transactions with status 'pending', then PATCH .../status to
\* 'completed', then PATCH .../status to 'failed', served back to back.
ServerRoundTrip(input) ==
    /\ ledger = "server"
    /\ input.status = "pending"
    /\ Len(transactions) < MaxTx
    /\ LET id == currentTransactionId
           opened == createTransactionRun(startups, transactions, id, input)
           confirmed == updateTransactionStatusRun(opened.startups, opened.transactions,
                                                   id, "completed", None)
           reversed == updateTransactionStatusRun(confirmed.startups,
                                                  confirmed.transactions,
                                                  id, "failed", None)
       IN  /\ transactions' = reversed.transactions
           /\ startups' = reversed.startups
    /\ currentTransactionId' = currentTransactionId + 1
    /\ response' = "200"
    /\ lastCall' = Call("roundTrip", "failed", "completed")
    /\ UNCHANGED <<ledger, modal, calls, currentStartupId, fsVars>>

\* GET /api/startups/:startupId/stats -> MemStorage.getStartupStats.
\* getStartupStats throws for an id with no startup and the route's catch
\* answers 500 with the error's message; otherwise the route answers 200
\* with the stats, kept in lastCall.result.
GetStats(id) ==
    /\ ledger = "server"
    /\ LET found == getStartupById(startups, id) # Missing
       IN  /\ response' = IF found THEN "200" ELSE "500"
           /\ lastCall' = [op |-> "getStartupStats", status |-> None,
                           previousStatus |-> None, id |-> id,
                           result |-> IF found
                                      THEN getStartupStats(startups, transactions, id)
                                      ELSE Missing]
    /\ UNCHANGED <<ledger, modal, calls, srvVars, fsVars>>

\* StatsInputs: investments of 300 in campaigns whose goal is 1000, 0 or
\* below 0.
StatsGoals == {-1000, 0, 1000}

StatsInputs ==
    {[investorId |-> inv, startupId |-> "s1", amount |-> 300,
      method |-> "upi", status |-> st, transactionId |-> "h1"] :
        inv \in Investors, st \in Statuses}

\* The routes called the way the product calls them: a campaign is created
\* once under its firebaseId and invested in after that; stats are asked for
\* any id.
ServerStatsNext(inputs, goals) ==
    \/ \E f \in {input.startupId : input \in inputs}, g \in goals :
          /\ getStartupByFirebaseId(startups, f) = Missing
          /\ PostStartup(f, g)
    \/ \E input \in inputs :
          /\ getStartupByFirebaseId(startups, input.startupId) # Missing
          /\ PostTransaction(input)
    \/ \E id \in 1..(MaxTx + 1), st \in Statuses :
          PatchTransactionStatus(id, st, None)
    \/ \E id \in 1..(MaxStartups + 1) : GetStats(id)

ServerNext(inputs, hashes) ==
    \/ \E f \in StartupIds, g \in Goals : PostStartup(f, g)
    \/ \E input \in inputs : PostTransaction(input)
    \/ \E id \in 1..(MaxTx + 1), s \in Statuses \cup {BadStatus}, h \in hashes :
          PatchTransactionStatus(id, s, h)

\* --- the same calls, suspended at their awaits. Every await of MemStorage
\* waits on a promise of an async method, so the caller resumes in a later
\* microtask and other calls can run in between.

\* createTransaction up to its first await: the record is stored and, for a
\* completed one, updateStartupFunding has looked the startup up.
SrvBeginCreateTransaction(c, input) ==
    /\ ledger = "server"
    /\ FreeSlot(c)
    /\ Len(transactions) < MaxTx
    /\ LET transaction == newTransaction(currentTransactionId, input)
       IN  /\ transactions' = Append(transactions, transaction)
           /\ currentTransactionId' = currentTransactionId + 1
           /\ IF transaction.status = "completed"
              THEN /\ calls' = [calls EXCEPT ![c] =
                          [pc |-> "funding", op |-> "createTransaction",
                           transaction |-> transaction,
                           previousStatus |-> None,
                           startup |-> getStartupByFirebaseId(startups,
                                                              transaction.startupId)]]
                   /\ UNCHANGED <<response, lastCall>>
              ELSE /\ response' = "201"
                   /\ lastCall' = Call("createTransaction", input.status, None)
                   /\ UNCHANGED calls
    /\ UNCHANGED <<ledger, modal, startups, currentStartupId, fsVars>>

\* updateTransactionStatus up to its first await, behind the PATCH route's
\* status check: getTransactionById has read the record.
SrvBeginUpdateTransactionStatus(c, id, status, transactionHash) ==
    /\ ledger = "server"
    /\ FreeSlot(c)
    /\ IF status \notin Statuses
       THEN /\ response' = "400"
            /\ lastCall' = Call("updateTransactionStatus", status, None)
            /\ UNCHANGED calls
       ELSE /\ calls' = [calls EXCEPT ![c] =
                   [pc |-> "got", op |-> "updateTransactionStatus", id |-> id,
                    status |-> status, transactionHash |-> transactionHash,
                    transaction |-> getTransactionById(transactions, id)]]
            /\ UNCHANGED <<response, lastCall>>
    /\ UNCHANGED <<ledger, modal, srvVars, fsVars>>

\* updateTransactionStatus from its first await to its second: the record is
\* rewritten from the copy read before the await.
SrvResumeUpdateTransactionStatus(c) ==
    /\ calls[c].pc = "got"
    /\ LET call == calls[c]
           transaction == call.transaction
       IN  IF transaction = Missing
           THEN /\ response' = "404"
                /\ lastCall' = Call("updateTransactionStatus", call.status, None)
                /\ calls' = [calls EXCEPT ![c] = Idle]
                /\ UNCHANGED transactions
           ELSE LET updated == updatedTransaction(transaction, call.status,
                                                  call.transactionHash)
                IN  /\ transactions' = [transactions EXCEPT ![call.id] = updated]
                    /\ IF fundingAffected(call.status, transaction.status)
                       THEN /\ calls' = [calls EXCEPT ![c] =
                                   [pc |-> "funding", op |-> "updateTransactionStatus",
                                    transaction |-> updated,
                                    previousStatus |-> transaction.status,
                                    startup |-> getStartupByFirebaseId(startups,
                                                                       updated.startupId)]]
                            /\ UNCHANGED <<response, lastCall>>
                       ELSE /\ response' = "200"
                            /\ lastCall' = Call("updateTransactionStatus", call.status,
                                                transaction.status)
                            /\ calls' = [calls EXCEPT ![c] = Idle]
    /\ UNCHANGED <<ledger, modal, startups, currentStartupId, currentTransactionId, fsVars>>

\* updateStartupFunding after its await, and the return of its caller.
SrvResumeUpdateStartupFunding(c) ==
    /\ calls[c].pc = "funding"
    /\ LET call == calls[c]
       IN  /\ startups' = updateStartupFundingWrite(startups, transactions,
                                                    call.startup, call.transaction)
           /\ response' = IF call.op = "createTransaction" THEN "201" ELSE "200"
           /\ lastCall' = Call(call.op, call.transaction.status, call.previousStatus)
    /\ calls' = [calls EXCEPT ![c] = Idle]
    /\ UNCHANGED <<ledger, modal, transactions, currentStartupId, currentTransactionId, fsVars>>

\* PATCH /api/startups/:id up to the first await of updateStartup: the route
\* has found the startup and updateStartup's getStartupById has read it.
SrvBeginUpdateStartup(c, id, data) ==
    /\ ledger = "server"
    /\ FreeSlot(c)
    /\ IF getStartupById(startups, id) = Missing
       THEN /\ response' = "404"
            /\ lastCall' = Call("updateStartup", None, None)
            /\ UNCHANGED calls
       ELSE /\ calls' = [calls EXCEPT ![c] =
                   [pc |-> "gotStartup", op |-> "updateStartup", id |-> id,
                    data |-> data, startup |-> getStartupById(startups, id)]]
            /\ UNCHANGED <<response, lastCall>>
    /\ UNCHANGED <<ledger, modal, srvVars, fsVars>>

\* updateStartup after its await: { ...startup, ...data } is stored from the
\* copy read before the await.
SrvResumeUpdateStartup(c) ==
    /\ calls[c].pc = "gotStartup"
    /\ LET call == calls[c]
       IN  startups' = [startups EXCEPT ![call.id] = updatedStartup(call.startup, call.data)]
    /\ response' = "200"
    /\ lastCall' = Call("updateStartup", None, None)
    /\ calls' = [calls EXCEPT ![c] = Idle]
    /\ UNCHANGED <<ledger, modal, transactions, currentStartupId, currentTransactionId, fsVars>>

\* Profile changes sent while the ledger is written: a new funding goal.
ProfileUpdates == {[fundingGoal |-> 8]}

\* Ledger calls and profile updates on campaigns that exist, interleaved at
\* their awaits.
ServerProfileNext(inputs, statuses, updates) ==
    \/ \E f \in {input.startupId : input \in inputs}, g \in Goals :
          /\ getStartupByFirebaseId(startups, f) = Missing
          /\ PostStartup(f, g)
    \/ \E c \in 1..MaxInFlight, input \in inputs :
          /\ getStartupByFirebaseId(startups, input.startupId) # Missing
          /\ SrvBeginCreateTransaction(c, input)
    \/ \E c \in 1..MaxInFlight, id \in 1..(MaxTx + 1), st \in statuses :
          SrvBeginUpdateTransactionStatus(c, id, st, None)
    \/ \E c \in 1..MaxInFlight : SrvResumeUpdateTransactionStatus(c)
    \/ \E c \in 1..MaxInFlight : SrvResumeUpdateStartupFunding(c)
    \/ \E c \in 1..MaxInFlight, id \in 1..(MaxStartups + 1), data \in updates :
          SrvBeginUpdateStartup(c, id, data)
    \/ \E c \in 1..MaxInFlight : SrvResumeUpdateStartup(c)

\* Calls on campaigns that exist, each firebaseId given to one startup.
ServerConcNext(inputs, statuses, hashes) ==
    \/ \E f \in {input.startupId : input \in inputs}, g \in Goals :
          /\ getStartupByFirebaseId(startups, f) = Missing
          /\ PostStartup(f, g)
    \/ \E c \in 1..MaxInFlight, input \in inputs :
          /\ getStartupByFirebaseId(startups, input.startupId) # Missing
          /\ SrvBeginCreateTransaction(c, input)
    \/ \E c \in 1..MaxInFlight, id \in 1..(MaxTx + 1),
          s \in statuses, h \in hashes :
          SrvBeginUpdateTransactionStatus(c, id, s, h)
    \/ \E c \in 1..MaxInFlight : SrvResumeUpdateTransactionStatus(c)
    \/ \E c \in 1..MaxInFlight : SrvResumeUpdateStartupFunding(c)

\* ------------------------------------------------- Firestore (the client)

\* The document createStartup adds: { ...startupData, fundingRaised: 0, investors: 0 }.
fsNewStartup(fundingGoal) ==
    [fundingGoal |-> fundingGoal, fundingRaised |-> 0, investors |-> 0]

\* Document ids addDoc can generate: ids no document has and, being
\* unguessable, no transaction names yet.
fsFreshStartupIds(fsts, ftxs) ==
    {s \in StartupIds : /\ fsts[s] = Missing
                        /\ \A i \in 1..Len(ftxs) : ftxs[i].startupId # s}

\* addDoc(collection(firestore, 'transactions'), newTransaction)
fsAddTransaction(ftxs, input) ==
    Append(ftxs, newTransaction(Len(ftxs) + 1, input))

\* investorQuerySnapshot.empty for the query on startupId, investorId and
\* status == 'completed'
investorQueryEmpty(ftxs, startupId, investorId) ==
    ~ \E i \in 1..Len(ftxs) : /\ ftxs[i].startupId = startupId
                              /\ ftxs[i].investorId = investorId
                              /\ ftxs[i].status = "completed"

\* What the client's getStartupStats returns for a startup document that
\* exists: the stored fundingRaised and fundingGoal, and the investors and
\* the size of the query on startupId and status == 'completed'.
fsGetStartupStats(fsts, ftxs, startupId) ==
    LET startupData == fsts[startupId]
        querySnapshot == {i \in 1..Len(ftxs) : /\ ftxs[i].startupId = startupId
                                               /\ ftxs[i].status = "completed"}
    IN  [fundingRaised |-> startupData.fundingRaised,
         fundingGoal |-> startupData.fundingGoal,
         progress |-> IF startupData.fundingGoal # 0
                      THEN (startupData.fundingRaised * 100) \div startupData.fundingGoal
                      ELSE 0,
         investors |-> Cardinality({ftxs[i].investorId : i \in querySnapshot}),
         totalTransactions |-> Cardinality(querySnapshot)]

\* updateDoc(startupRef, { fundingRaised: newFundingRaised, investors: newInvestorsCount })
\* in createTransaction: startupData is the snapshot getDoc returned, cur the
\* document the write lands on.
fsStartupAfterCreate(cur, startupData, amount, isNewInvestor) ==
    [cur EXCEPT !.fundingRaised = startupData.fundingRaised + amount,
                !.investors = IF isNewInvestor THEN startupData.investors + 1
                              ELSE startupData.investors]

\* updateDoc(transactionRef, updateData) in updateTransactionStatus
fsUpdatedTransaction_Restamped(doc, status, transactionHash) ==
    IF transactionHash # None
    THEN [doc EXCEPT !.status = status, !.transactionId = transactionHash,
                     !.createdAt = 0]
    ELSE [doc EXCEPT !.status = status, !.createdAt = 0]

\* updateDoc(transactionRef, updateData): status, and transactionId when a
\* hash was passed.
fsUpdatedTransaction(doc, status, transactionHash) ==
    IF transactionHash # None
    THEN [doc EXCEPT !.status = status, !.transactionId = transactionHash]
    ELSE [doc EXCEPT !.status = status]

\* The revert test without its test on the status read back.
fsRevertNeeded_AnyPrevious(status, transactionData) ==
    status = "failed"

\* The revert test without its test on the new status.
fsRevertNeeded_AnyStatus(status, transactionData) ==
    transactionData.status = "completed"

\* "Only revert if it was previously completed": the test the revert branch
\* makes on transactionData, the document read back after the status write.
fsRevertNeeded(status, transactionData) ==
    status = "failed" /\ transactionData.status = "completed"

\* updateDoc(startupRef, { fundingRaised: newFundingRaised > 0 ? newFundingRaised : 0 })
fsStartupAfterRevert(cur, startupData, amount) ==
    LET newFundingRaised == startupData.fundingRaised - amount
    IN  [cur EXCEPT !.fundingRaised = IF newFundingRaised > 0 THEN newFundingRaised ELSE 0]

\* createStartup, run to completion.
FsCreateStartup(fundingGoal) ==
    /\ ledger = "client"
    /\ \E s \in fsFreshStartupIds(fsStartups, fsTransactions) :
          fsStartups' = [fsStartups EXCEPT ![s] = fsNewStartup(fundingGoal)]
    /\ response' = "resolved"
    /\ lastCall' = Call("createStartup", None, None)
    /\ UNCHANGED <<ledger, modal, calls, srvVars, fsTransactions>>

\* The startups collection after createTransaction ran to completion; ftxs is
\* the transactions collection with the new document in it.
fsStartupsAfterCreateTransaction(fsts, ftxs, input) ==
    LET startupData == fsts[input.startupId]
        isNewInvestor == investorQueryEmpty(ftxs, input.startupId, input.investorId)
    IN  IF startupData # Missing
        THEN [fsts EXCEPT ![input.startupId] =
                 fsStartupAfterCreate(startupData, startupData,
                                      input.amount, isNewInvestor)]
        ELSE fsts

\* createTransaction, run to completion.
FsCreateTransaction(input) ==
    /\ ledger = "client"
    /\ Len(fsTransactions) < MaxTx
    /\ LET ftxs == fsAddTransaction(fsTransactions, input)
       IN  /\ fsTransactions' = ftxs
           /\ fsStartups' = fsStartupsAfterCreateTransaction(fsStartups, ftxs, input)
    /\ response' = "resolved"
    /\ lastCall' = Call("createTransaction", input.status, None)
    /\ UNCHANGED <<ledger, modal, calls, srvVars>>

\* updateTransactionStatus, run to completion.
FsUpdateTransactionStatus(id, status, transactionHash) ==
    /\ ledger = "client"
    /\ lastCall' = Call("updateTransactionStatus", status,
                        IF id \in 1..Len(fsTransactions)
                        THEN fsTransactions[id].status ELSE None)
    /\ IF id \notin 1..Len(fsTransactions)
       THEN \* updateDoc on a document that does not exist rejects
            /\ response' = "rejected"
            /\ UNCHANGED fsVars
       ELSE LET ftxs == [fsTransactions EXCEPT
                            ![id] = fsUpdatedTransaction(@, status, transactionHash)]
                transactionData == ftxs[id]
                startupData == fsStartups[transactionData.startupId]
            IN  /\ fsTransactions' = ftxs
                /\ fsStartups' =
                     IF fsRevertNeeded(status, transactionData) /\ startupData # Missing
                     THEN [fsStartups EXCEPT ![transactionData.startupId] =
                              fsStartupAfterRevert(startupData, startupData,
                                                   transactionData.amount)]
                     ELSE fsStartups
                /\ response' = "resolved"
    /\ UNCHANGED <<ledger, modal, calls, srvVars>>

ClientNext(inputs, hashes) ==
    \/ \E g \in Goals : FsCreateStartup(g)
    \/ \E input \in inputs : FsCreateTransaction(input)
    \/ \E id \in 1..(MaxTx + 1), s \in Statuses, h \in hashes :
          FsUpdateTransactionStatus(id, s, h)

\* --- createTransaction as its four Firestore requests; requests of other
\* calls can be served between any two of them.

\* addDoc(collection(firestore, 'transactions'), newTransaction)
FsBeginCreateTransaction(c, input) ==
    /\ ledger = "client"
    /\ FreeSlot(c)
    /\ Len(fsTransactions) < MaxTx
    /\ fsTransactions' = fsAddTransaction(fsTransactions, input)
    /\ calls' = [calls EXCEPT ![c] =
            [pc |-> "getStartup", op |-> "createTransaction", input |-> input,
             docId |-> Len(fsTransactions) + 1]]
    /\ UNCHANGED <<ledger, modal, srvVars, fsStartups, response, lastCall>>

\* getDoc(startupRef); without the startup createTransaction returns here.
FsCreateGetStartup(c) ==
    /\ calls[c].pc = "getStartup"
    /\ LET call == calls[c]
           startupData == fsStartups[call.input.startupId]
       IN  IF startupData = Missing
           THEN /\ calls' = [calls EXCEPT ![c] = Idle]
                /\ response' = "resolved"
                /\ lastCall' = Call("createTransaction", call.input.status, None)
           ELSE /\ calls' = [calls EXCEPT ![c] =
                       [pc |-> "query", op |-> "createTransaction",
                        input |-> call.input, docId |-> call.docId,
                        startupData |-> startupData]]
                /\ UNCHANGED <<response, lastCall>>
    /\ UNCHANGED <<ledger, modal, srvVars, fsVars>>

\* getDocs(investorQ)
FsCreateQueryInvestor(c) ==
    /\ calls[c].pc = "query"
    /\ LET call == calls[c]
       IN  calls' = [calls EXCEPT ![c] =
               [pc |-> "write", op |-> "createTransaction", input |-> call.input,
                docId |-> call.docId, startupData |-> call.startupData,
                isNewInvestor |-> investorQueryEmpty(fsTransactions,
                                     call.input.startupId, call.input.investorId)]]
    /\ UNCHANGED <<ledger, modal, srvVars, fsVars, response, lastCall>>

\* updateDoc(startupRef, ...) and the return.
FsCreateUpdateStartup(c) ==
    /\ calls[c].pc = "write"
    /\ LET call == calls[c]
           s == call.input.startupId
       IN  /\ fsStartups' = [fsStartups EXCEPT ![s] =
                   fsStartupAfterCreate(fsStartups[s], call.startupData,
                                        call.input.amount, call.isNewInvestor)]
           /\ lastCall' = Call("createTransaction", call.input.status, None)
    /\ response' = "resolved"
    /\ calls' = [calls EXCEPT ![c] = Idle]
    /\ UNCHANGED <<ledger, modal, srvVars, fsTransactions>>

\* getDoc, getDocs or updateDoc rejects: createTransaction's catch logs the
\* error and rethrows it.
FsCreateStepFails(c) ==
    /\ calls[c].pc \in {"getStartup", "query", "write"}
    /\ response' = "rejected"
    /\ lastCall' = Call("createTransaction", calls[c].input.status, None)
    /\ calls' = [calls EXCEPT ![c] = Idle]
    /\ UNCHANGED <<ledger, modal, srvVars, fsVars>>

ClientCreateNext(inputs) ==
    \/ \E g \in Goals : FsCreateStartup(g)
    \/ \E c \in 1..MaxInFlight, input \in inputs : FsBeginCreateTransaction(c, input)
    \/ \E c \in 1..MaxInFlight : FsCreateGetStartup(c)
    \/ \E c \in 1..MaxInFlight : FsCreateQueryInvestor(c)
    \/ \E c \in 1..MaxInFlight : FsCreateUpdateStartup(c)

\* --- updateTransactionStatus as its Firestore requests.

\* updateDoc(transactionRef, updateData); for a status other than 'failed'
\* the call returns after it.
FsBeginUpdateTransactionStatus(c, id, status, transactionHash) ==
    /\ ledger = "client"
    /\ FreeSlot(c)
    /\ id \in 1..Len(fsTransactions)
    /\ fsTransactions' = [fsTransactions EXCEPT
                              ![id] = fsUpdatedTransaction(@, status, transactionHash)]
    /\ IF status = "failed"
       THEN /\ calls' = [calls EXCEPT ![c] =
                   [pc |-> "readBack", op |-> "updateTransactionStatus", id |-> id,
                    status |-> status, previousStatus |-> fsTransactions[id].status]]
            /\ UNCHANGED <<response, lastCall>>
       ELSE /\ response' = "resolved"
            /\ lastCall' = Call("updateTransactionStatus", status,
                                fsTransactions[id].status)
            /\ UNCHANGED calls
    /\ UNCHANGED <<ledger, modal, srvVars, fsStartups>>

\* getDoc(transactionRef) and the test on the status it read.
FsUpdateReadBack(c) ==
    /\ calls[c].pc = "readBack"
    /\ LET call == calls[c]
           transactionData == fsTransactions[call.id]
       IN  IF fsRevertNeeded(call.status, transactionData)
           THEN /\ calls' = [calls EXCEPT ![c] =
                       [pc |-> "revertGet", op |-> "updateTransactionStatus",
                        id |-> call.id, status |-> call.status,
                        previousStatus |-> call.previousStatus,
                        transactionData |-> transactionData]]
                /\ UNCHANGED <<response, lastCall>>
           ELSE /\ calls' = [calls EXCEPT ![c] = Idle]
                /\ response' = "resolved"
                /\ lastCall' = Call("updateTransactionStatus", call.status,
                                    call.previousStatus)
    /\ UNCHANGED <<ledger, modal, srvVars, fsVars>>

\* getDoc(startupRef) in the revert branch.
FsUpdateGetStartup(c) ==
    /\ calls[c].pc = "revertGet"
    /\ LET call == calls[c]
           startupData == fsStartups[call.transactionData.startupId]
       IN  IF startupData # Missing
           THEN /\ calls' = [calls EXCEPT ![c] =
                       [pc |-> "revertWrite", op |-> "updateTransactionStatus",
                        id |-> call.id, status |-> call.status,
                        previousStatus |-> call.previousStatus,
                        transactionData |-> call.transactionData,
                        startupData |-> startupData]]
                /\ UNCHANGED <<response, lastCall>>
           ELSE /\ calls' = [calls EXCEPT ![c] = Idle]
                /\ response' = "resolved"
                /\ lastCall' = Call("updateTransactionStatus", call.status,
                                    call.previousStatus)
    /\ UNCHANGED <<ledger, modal, srvVars, fsVars>>

\* updateDoc(startupRef, { fundingRaised: ... }) in the revert branch, and
\* the return.
FsUpdateRevert(c) ==
    /\ calls[c].pc = "revertWrite"
    /\ LET call == calls[c]
           s == call.transactionData.startupId
       IN  /\ fsStartups' = [fsStartups EXCEPT ![s] =
                   fsStartupAfterRevert(fsStartups[s], call.startupData,
                                        call.transactionData.amount)]
           /\ lastCall' = Call("updateTransactionStatus", call.status,
                               call.previousStatus)
    /\ response' = "resolved"
    /\ calls' = [calls EXCEPT ![c] = Idle]
    /\ UNCHANGED <<ledger, modal, srvVars, fsTransactions>>

ClientUpdateNext(inputs, statuses) ==
    \/ \E g \in Goals : FsCreateStartup(g)
    \/ \E input \in inputs :
          /\ fsStartups[input.startupId] # Missing
          /\ Quiescent
          /\ FsCreateTransaction(input)
    \/ \E c \in 1..MaxInFlight, id \in 1..MaxTx, st \in statuses :
          FsBeginUpdateTransactionStatus(c, id, st, None)
    \/ \E c \in 1..MaxInFlight : FsUpdateReadBack(c)
    \/ \E c \in 1..MaxInFlight : FsUpdateGetStartup(c)
    \/ \E c \in 1..MaxInFlight : FsUpdateRevert(c)

\* ------------------------------------- InvestmentModal and the wallet

\* validateUPITransactionId tests the trimmed id against /^[a-zA-Z0-9_-]{12,}$/.
MinUpiIdLength == 12

\* What the investor can type as UPI transaction id: its text, the length of
\* the trimmed text, and whether all its characters are in [a-zA-Z0-9_-].
UpiIds ==
    {[text |-> "",   length |-> 0,  wordChars |-> TRUE],
     [text |-> "h2", length |-> 11, wordChars |-> TRUE],
     [text |-> "h3", length |-> 12, wordChars |-> FALSE],
     [text |-> "h1", length |-> 12, wordChars |-> TRUE]}

validateUPITransactionId(transactionId) ==
    /\ transactionId.length > 0
    /\ transactionId.wordChars
    /\ transactionId.length >= MinUpiIdLength

\* parseFloat(amount) of what the investor can type as amount.
FormAmounts == {0, 1}

\* The modal with no handleSubmit running. records holds the ids of the
\* documents the last handleSubmit run and its callback created, outcome what
\* became of its wallet transfer.
ModalForm ==
    [pc |-> "form", isSubmitting |-> FALSE, toast |-> None,
     paymentMethod |-> None, investorId |-> None, startupId |-> None, amount |-> 0,
     callback |-> None, outcome |-> None, records |-> {}]

\* The argument of a createTransaction call of the modal.
modalTransaction(m, method, status, transactionId) ==
    [investorId |-> m.investorId, startupId |-> m.startupId, amount |-> m.amount,
     method |-> method, status |-> status, transactionId |-> transactionId]

\* handleSubmit from the click to its return or to its await of
\* sendTransaction. The submit button is disabled while isSubmitting, and a new
\* run starts only after the previous one and its callback have ended.
ModalSubmit(user, startupId, amount, paymentMethod, transactionId, metaMaskAvailable) ==
    /\ ledger = "client"
    /\ modal.pc = "form"
    /\ ~ modal.isSubmitting
    /\ modal.callback # "running"
    /\ IF user = None
       THEN /\ modal' = [modal EXCEPT !.toast = "Authentication Error"]
            /\ UNCHANGED <<fsVars, response, lastCall>>
       ELSE IF startupId = None
       THEN /\ modal' = [modal EXCEPT !.toast = "Error"]
            /\ UNCHANGED <<fsVars, response, lastCall>>
       ELSE IF amount <= 0
       THEN /\ modal' = [modal EXCEPT !.toast = "Invalid Amount"]
            /\ UNCHANGED <<fsVars, response, lastCall>>
       ELSE LET m == [ModalForm EXCEPT !.paymentMethod = paymentMethod,
                                       !.investorId = user,
                                       !.startupId = startupId,
                                       !.amount = amount]
            IN  IF paymentMethod = "metamask"
                THEN IF ~ metaMaskAvailable
                     THEN /\ modal' = [modal EXCEPT !.toast = "MetaMask Not Found",
                                                    !.isSubmitting = FALSE]
                          /\ UNCHANGED <<fsVars, response, lastCall>>
                     ELSE \* createTransaction({ ..., method: 'metamask', status: 'pending' })
                          LET input == modalTransaction(m, "metamask", "pending", None)
                              ftxs == fsAddTransaction(fsTransactions, input)
                          IN  /\ Len(fsTransactions) < MaxTx
                              /\ fsTransactions' = ftxs
                              /\ fsStartups' =
                                   fsStartupsAfterCreateTransaction(fsStartups, ftxs, input)
                              /\ response' = "resolved"
                              /\ lastCall' = Call("createTransaction", "pending", None)
                              /\ modal' = [m EXCEPT !.pc = "wallet",
                                                    !.isSubmitting = TRUE,
                                                    !.records = {Len(ftxs)}]
                ELSE IF ~ validateUPITransactionId(transactionId)
                     THEN /\ modal' = [modal EXCEPT !.toast = "Invalid Transaction ID",
                                                    !.isSubmitting = FALSE]
                          /\ UNCHANGED <<fsVars, response, lastCall>>
                     ELSE \* createTransaction({ ..., method: 'upi', status: 'completed',
                          \* transactionId }), then handleClose()
                          LET input == modalTransaction(m, "upi", "completed",
                                                        transactionId.text)
                              ftxs == fsAddTransaction(fsTransactions, input)
                          IN  /\ Len(fsTransactions) < MaxTx
                              /\ fsTransactions' = ftxs
                              /\ fsStartups' =
                                   fsStartupsAfterCreateTransaction(fsStartups, ftxs, input)
                              /\ response' = "resolved"
                              /\ lastCall' = Call("createTransaction", "completed", None)
                              /\ modal' = [m EXCEPT !.toast = "Investment Recorded",
                                                    !.records = {Len(ftxs)}]
    /\ UNCHANGED <<ledger, calls, srvVars>>

\* sendTransaction throws before the transfer is submitted (no signer, the
\* investor rejects it in the wallet); handleSubmit's catch runs.
WalletReject ==
    /\ modal.pc = "wallet"
    /\ modal' = [modal EXCEPT !.pc = "form", !.isSubmitting = FALSE,
                              !.toast = "Investment Failed", !.outcome = "rejected"]
    /\ UNCHANGED <<ledger, calls, srvVars, fsVars, response, lastCall>>

\* signer.sendTransaction resolves: sendTransaction calls onHash(transaction.hash)
\* without awaiting it and goes on to await transaction.wait(). The callback
\* calls createTransaction({ ..., status: 'completed', transactionId: txHash }).
WalletSubmit(txHash) ==
    /\ modal.pc = "wallet"
    /\ Len(fsTransactions) < MaxTx
    /\ LET input == modalTransaction(modal, "metamask", "completed", txHash)
           ftxs == fsAddTransaction(fsTransactions, input)
       IN  /\ fsTransactions' = ftxs
           /\ fsStartups' = fsStartupsAfterCreateTransaction(fsStartups, ftxs, input)
           /\ modal' = [modal EXCEPT !.pc = "waiting", !.callback = "running",
                                     !.records = @ \cup {Len(ftxs)}]
    /\ response' = "resolved"
    /\ lastCall' = Call("createTransaction", "completed", None)
    /\ UNCHANGED <<ledger, calls, srvVars>>

\* The callback after its createTransaction: the toast and handleClose().
CallbackResume ==
    /\ modal.callback = "running"
    /\ modal' = [modal EXCEPT !.callback = "done", !.isSubmitting = FALSE,
                              !.toast = "Investment Successful"]
    /\ UNCHANGED <<ledger, calls, srvVars, fsVars, response, lastCall>>

\* transaction.wait() returns a receipt: sendTransaction resolves and
\* handleSubmit returns.
WalletMined ==
    /\ modal.pc = "waiting"
    /\ modal' = [modal EXCEPT !.pc = "form", !.outcome = "mined"]
    /\ UNCHANGED <<ledger, calls, srvVars, fsVars, response, lastCall>>

\* transaction.wait() throws (the transfer reverted) or returns no receipt:
\* sendTransaction rethrows and handleSubmit's catch runs.
WalletFail ==
    /\ modal.pc = "waiting"
    /\ modal' = [modal EXCEPT !.pc = "form", !.isSubmitting = FALSE,
                              !.toast = "Investment Failed", !.outcome = "failed"]
    /\ UNCHANGED <<ledger, calls, srvVars, fsVars, response, lastCall>>

\* The modal is opened on a startup of the listing, by a signed-in investor
\* or by nobody.
ModalNext ==
    \/ \E g \in Goals : FsCreateStartup(g)
    \/ \E user \in {None, "i1"},
          startupId \in {s \in StartupIds : fsStartups[s] # Missing} \cup {None},
          amount \in FormAmounts, paymentMethod \in Methods,
          transactionId \in UpiIds, metaMaskAvailable \in BOOLEAN :
          ModalSubmit(user, startupId, amount, paymentMethod, transactionId,
                      metaMaskAvailable)
    \/ WalletReject
    \/ \E txHash \in Hashes : WalletSubmit(txHash)
    \/ CallbackResume
    \/ WalletMined
    \/ WalletFail

\* ---------------------------------------------------------- specifications

Init ==
    /\ ledger \in {"server", "client"}
    /\ startups = <<>>
    /\ transactions = <<>>
    /\ currentStartupId = 1
    /\ currentTransactionId = 1
    /\ fsStartups = [s \in StartupIds |-> Missing]
    /\ fsTransactions = <<>>
    /\ response = None
    /\ lastCall = Call(None, None, None)
    /\ calls = [c \in 1..MaxInFlight |-> Idle]
    /\ modal = ModalForm

\* Calls run one after another, each to completion.
Next ==
    \/ ServerNext(LedgerInputs, {None})
    \/ ClientNext(LedgerInputs, {None})

Spec == Init /\ [][Next]_vars

NextRail ==
    \/ ServerNext(RailInputs, Hashes \cup {None})
    \/ ClientNext(RailInputs, Hashes \cup {None})

SpecRail == Init /\ [][NextRail]_vars

\* Calls run one after another, with amounts around zero.
NextAmount ==
    \/ ServerNext(AmountInputs, {None})
    \/ ClientNext(AmountInputs, {None})

SpecAmount == Init /\ [][NextAmount]_vars

\* Server calls run one after another, startups edited in between, and
\* investments opened, confirmed and reversed in one go.
NextRoundTrip ==
    \/ ServerNext(LedgerInputs, {None})
    \/ \E id \in 1..(MaxStartups + 1), data \in StartupUpdates : PatchStartup(id, data)
    \/ \E input \in LedgerInputs : ServerRoundTrip(input)

SpecRoundTrip == Init /\ [][NextRoundTrip]_vars

\* Campaign statistics asked between ledger calls.
NextStats == ServerStatsNext(StatsInputs, StatsGoals)

SpecStats == Init /\ [][NextStats]_vars

\* Server calls interleaved at their awaits.
NextServerConc == ServerConcNext(ConcInputs, Statuses, {None})

SpecServerConc == Init /\ [][NextServerConc]_vars

\* Server calls on two campaigns interleaved at their awaits: completed
\* investments and their reversals.
NextServerFrame == ServerConcNext(FrameInputs, {"failed"}, {None})

SpecServerFrame == Init /\ [][NextServerFrame]_vars

\* Completed investments of i1 in one campaign, their reversals and profile
\* updates of the campaign, interleaved at their awaits.
NextServerProfile ==
    ServerProfileNext({input \in FrameInputs : input.startupId = "s1"},
                      {"failed"}, ProfileUpdates)

SpecServerProfile == Init /\ [][NextServerProfile]_vars

\* Client createTransaction calls interleaved at their Firestore requests.
NextClientCreate == ClientCreateNext(ConcInputs)

SpecClientCreate == Init /\ [][NextClientCreate]_vars

\* Client updateTransactionStatus calls interleaved at their Firestore
\* requests, on the completed and pending transactions of one campaign.
NextClientUpdate == ClientUpdateNext(ConcInputs, {"completed", "failed"})

SpecClientUpdate == Init /\ [][NextClientUpdate]_vars

\* The same, with Firestore requests that can fail.
NextClientFault ==
    \/ ClientCreateNext(ConcInputs)
    \/ \E c \in 1..MaxInFlight : FsCreateStepFails(c)

SpecClientFault == Init /\ [][NextClientFault]_vars

\* Investments made through InvestmentModal, one handleSubmit run at a time.
NextModal == ModalNext

SpecModal == Init /\ [][NextModal]_vars

\* The wallet answers a request it was given, a submitted transfer is mined
\* or fails, and a promise that resolved runs its continuation.
FairModal ==
    /\ WF_vars(WalletReject \/ \E txHash \in Hashes : WalletSubmit(txHash))
    /\ WF_vars(WalletMined \/ WalletFail)
    /\ WF_vars(CallbackResume)

SpecModalFair == SpecModal /\ FairModal

\* ------------------------------------------------------------ properties

RECURSIVE SumCompleted(_, _, _)
\* Sum of amount over the first n records of txs that belong to startup sid
\* and are completed.
SumCompleted(txs, sid, n) ==
    IF n = 0 THEN 0
    ELSE SumCompleted(txs, sid, n - 1)
         + (IF txs[n].startupId = sid /\ txs[n].status = "completed"
            THEN txs[n].amount ELSE 0)

\* Number of distinct investors among the completed records of startup sid.
DistinctInvestors(txs, sid) ==
    Cardinality({inv \in Investors :
        \E n \in 1..Len(txs) : /\ txs[n].startupId = sid
                               /\ txs[n].status = "completed"
                               /\ txs[n].investorId = inv})

\* fundingRaised and investors of every startup record of the server.
SrvAggregates ==
    [i \in 1..Len(startups) |-> <<startups[i].fundingRaised, startups[i].investors>>]

\* fundingRaised and investors of every startup document of the client.
FsAggregates ==
    [s \in {t \in StartupIds : fsStartups[t] # Missing} |->
        <<fsStartups[s].fundingRaised, fsStartups[s].investors>>]

\* C1: server ledger, calls run one after another: every startup's stored
\* fundingRaised equals the sum of amount over the stored transactions of
\* that startup's firebaseId whose status is 'completed'.
C1_ServerFundingIsCompletedSum ==
    ledger = "server" =>
        \A i \in 1..Len(startups) :
            startups[i].fundingRaised =
                SumCompleted(transactions, startups[i].firebaseId, Len(transactions))

\* C2: client ledger, calls run one after another: every existing startup's
\* fundingRaised equals the sum of amount over the transaction documents of
\* that startup whose status is 'completed'.
C2_ClientFundingIsCompletedSum ==
    ledger = "client" =>
        \A s \in StartupIds :
            fsStartups[s] # Missing =>
                fsStartups[s].fundingRaised =
                    SumCompleted(fsTransactions, s, Len(fsTransactions))

\* C3: server ledger: after every createTransaction or updateTransactionStatus
\* call that ran to completion, every startup's stored investors equals the
\* number of distinct investorId values among its completed transactions.
C3_ServerInvestorsIsDistinctCount ==
    (ledger = "server" /\ lastCall.op \in {"createTransaction", "updateTransactionStatus"}) =>
        \A i \in 1..Len(startups) :
            startups[i].investors = DistinctInvestors(transactions, startups[i].firebaseId)

\* C4: in both ledgers, creating a transaction with status 'pending' leaves
\* every startup's fundingRaised and investors unchanged.
C4_PendingCreateLeavesAggregates ==
    [][(lastCall'.op = "createTransaction" /\ lastCall'.status = "pending")
          => (SrvAggregates' = SrvAggregates /\ FsAggregates' = FsAggregates)]_vars

\* A status change the state machine allows.
AllowedTransition(previousStatus, status) ==
    \/ previousStatus = "pending" /\ status \in {"completed", "failed"}
    \/ previousStatus = "completed" /\ status = "failed"

\* The last handleSubmit run took the wallet branch past its guards and has
\* ended, its callback included.
WalletAttemptEnded ==
    /\ modal.paymentMethod = "metamask"
    /\ modal.records # {}
    /\ modal.pc = "form"
    /\ modal.callback # "running"

\* C5: a wallet investment submitted through InvestmentModal.handleSubmit has
\* created exactly one transaction document once it has ended, whatever the
\* wallet did: a transfer that was mined shows as that one document, completed.
C5_WalletAttemptOneRecord ==
    WalletAttemptEnded =>
        /\ Cardinality(modal.records) = 1
        /\ modal.outcome = "mined" =>
               \A id \in modal.records : fsTransactions[id].status = "completed"

\* C6: in both ledgers, a transaction whose status is 'failed' keeps that
\* status whatever is called afterwards.
C6_FailedIsTerminal ==
    [][/\ \A i \in 1..Len(transactions) :
            transactions[i].status = "failed" => transactions'[i].status = "failed"
       /\ \A i \in 1..Len(fsTransactions) :
            fsTransactions[i].status = "failed" => fsTransactions'[i].status = "failed"]_vars

\* C7: server: a requested status change of an existing transaction that is
\* not pending->completed, pending->failed or completed->failed is answered
\* with a failure and changes no transaction and no startup.
C7_InvalidTransitionRefused ==
    [][(/\ ledger = "server"
        /\ lastCall'.op = "updateTransactionStatus"
        /\ lastCall'.previousStatus # None
        /\ ~ AllowedTransition(lastCall'.previousStatus, lastCall'.status))
          => (response' # "200" /\ UNCHANGED srvVars)]_vars

\* C8: in both ledgers, updateTransactionStatus(id, 'completed', ref) on a
\* transaction that is already 'completed' leaves every startup's
\* fundingRaised and investors as they were.
C8_DuplicateConfirmLeavesAggregates ==
    [][(/\ lastCall'.op = "updateTransactionStatus"
        /\ lastCall'.status = "completed"
        /\ lastCall'.previousStatus = "completed")
          => (SrvAggregates' = SrvAggregates /\ FsAggregates' = FsAggregates)]_vars

\* A duplicate confirmation was just served for a transaction whose amount
\* the startup's aggregate holds.
C8_Witness ==
    /\ lastCall = Call("updateTransactionStatus", "completed", "completed")
    /\ response \in {"200", "resolved"}
    /\ \/ \E i \in 1..Len(startups) : startups[i].fundingRaised > 0
       \/ \E s \in StartupIds : fsStartups[s] # Missing /\ fsStartups[s].fundingRaised > 0

\* C10: server ledger, calls on existing campaigns interleaved at their
\* awaits: once every call has finished, each startup's fundingRaised and
\* investors equal the sum and the distinct-investor count of the
\* transactions that are then 'completed'.
C10_ServerQuiescentAggregatesExact ==
    (ledger = "server" /\ Quiescent) =>
        \A i \in 1..Len(startups) :
            /\ startups[i].fundingRaised =
                   SumCompleted(transactions, startups[i].firebaseId, Len(transactions))
            /\ startups[i].investors =
                   DistinctInvestors(transactions, startups[i].firebaseId)

\* C11: server ledger, calls interleaved at their awaits: while a call is
\* between its steps, a reader that finds a transaction 'completed'
\* (getTransactionById) finds its amount within the fundingRaised that
\* getStartupStats reports for the transaction's startup.
C11_CompletedNeverAheadOfAggregate ==
    (ledger = "server" /\ ~ Quiescent) =>
        \A id \in 1..Len(transactions), i \in 1..Len(startups) :
            LET transaction == getTransactionById(transactions, id)
            IN  (/\ transaction.status = "completed"
                 /\ startups[i].firebaseId = transaction.startupId)
                    => getStartupStats(startups, transactions, i).fundingRaised
                           >= transaction.amount

\* C12: in both ledgers no stored transaction has an amount of zero or less:
\* a createTransaction with such an amount stores nothing.
C12_NonPositiveAmountNeverRecorded ==
    /\ \A i \in 1..Len(transactions) : transactions[i].amount > 0
    /\ \A i \in 1..Len(fsTransactions) : fsTransactions[i].amount > 0

\* C13: in both ledgers every startup's fundingRaised is zero or more.
C13_FundingRaisedNonNegative ==
    /\ \A i \in 1..Len(startups) : startups[i].fundingRaised >= 0
    /\ \A s \in StartupIds :
          fsStartups[s] # Missing => fsStartups[s].fundingRaised >= 0

\* C14: client ledger: a step that moves a transaction document from
\* 'completed' to 'failed' lowers the fundingRaised of its startup by the
\* transaction's amount, and to zero when that would go below zero.
C14_ClientReversalLowersFunding ==
    [][ledger = "client" =>
          \A i \in 1..Len(fsTransactions) :
              LET s == fsTransactions[i].startupId
                  lowered == fsStartups[s].fundingRaised - fsTransactions[i].amount
              IN  (/\ fsTransactions[i].status = "completed"
                   /\ fsTransactions'[i].status = "failed"
                   /\ fsStartups[s] # Missing)
                      => fsStartups'[s].fundingRaised =
                             IF lowered > 0 THEN lowered ELSE 0]_vars

\* The investor has a completed transaction for the startup among txs.
HasCompleted(txs, sid, inv) ==
    \E n \in 1..Len(txs) : /\ txs[n].startupId = sid
                            /\ txs[n].investorId = inv
                            /\ txs[n].status = "completed"

\* C15: client ledger: a createTransaction with status 'completed' for an
\* existing startup raises its investors by exactly 1 when the investor had
\* no completed transaction for it before the call, and leaves investors as
\* it was when the investor had one.
C15_ClientInvestorsOnCompletedCreate ==
    [][(/\ ledger = "client"
        /\ lastCall'.op = "createTransaction"
        /\ lastCall'.status = "completed"
        /\ Len(fsTransactions') = Len(fsTransactions) + 1)
          => LET created == fsTransactions'[Len(fsTransactions')]
                 s == created.startupId
             IN  fsStartups[s] # Missing =>
                     fsStartups'[s].investors =
                         IF HasCompleted(fsTransactions, s, created.investorId)
                         THEN fsStartups[s].investors
                         ELSE fsStartups[s].investors + 1]_vars

\* The aggregates of startup record i as stored and as getStartupStats
\* reports them.
ReportedAggregates(sts, txs, i) ==
    LET stats == getStartupStats(sts, txs, i)
    IN  <<sts[i].fundingRaised, sts[i].investors,
          stats.fundingRaised, stats.investors, stats.totalTransactions>>

\* C16: server ledger: opening a pending transaction for a startup that has
\* no transactions, confirming it and then reversing it leaves the startup's
\* fundingRaised, investors and the figures getStartupStats reports exactly
\* as they were before the transaction was created.
C16_ServerRoundTripRestoresAggregates ==
    [][(/\ lastCall'.op = "roundTrip"
        /\ Len(transactions') = Len(transactions) + 1)
          => LET s == transactions'[Len(transactions')].startupId
             IN  getTransactionsByStartupId(transactions, s) = {} =>
                     \A i \in 1..Len(startups) :
                         startups[i].firebaseId = s =>
                             ReportedAggregates(startups', transactions', i) =
                                 ReportedAggregates(startups, transactions, i)]_vars

\* C17: InvestmentModal: when the wallet transfer of a handleSubmit run was
\* rejected or failed, the pending document that run created first is
\* eventually 'failed'.
C17_WalletFailureMarksFailed ==
    \A id \in 1..MaxTx :
        (/\ modal.outcome \in {"rejected", "failed"}
         /\ id \in modal.records
         /\ fsTransactions[id].status = "pending")
            ~> (id <= Len(fsTransactions) /\ fsTransactions[id].status = "failed")

\* C18: InvestmentModal: every transaction document a handleSubmit run
\* writes has status 'pending' when its method is 'metamask' and status
\* 'completed' when its method is 'upi'.
C18_InitialStatusFollowsRail ==
    [][Len(fsTransactions') = Len(fsTransactions) + 1
          => LET created == fsTransactions'[Len(fsTransactions')]
             IN  /\ created.method = "metamask" => created.status = "pending"
                 /\ created.method = "upi" => created.status = "completed"]_vars

\* C19: client ledger: when a createTransaction call ends because a request
\* after its addDoc failed, the transaction document it added is no longer
\* in the collection.
C19_ClientCreateAllOrNothing ==
    [][\A c \in 1..MaxInFlight :
          (/\ calls[c].pc \in {"getStartup", "query", "write"}
           /\ calls'[c] = Idle
           /\ response' = "rejected")
              => calls[c].docId \notin 1..Len(fsTransactions')]_vars

\* C20: in both ledgers, updateTransactionStatus(id, 'failed') on a
\* transaction whose status is 'pending' leaves every startup's
\* fundingRaised and investors as they were.
C20_RejectPendingLeavesAggregates ==
    [][(/\ lastCall'.op = "updateTransactionStatus"
        /\ lastCall'.status = "failed"
        /\ lastCall'.previousStatus = "pending")
          => (SrvAggregates' = SrvAggregates /\ FsAggregates' = FsAggregates)]_vars

\* A pending transaction of an existing startup was just rejected.
C20_Witness ==
    /\ lastCall = Call("updateTransactionStatus", "failed", "pending")
    /\ response \in {"200", "resolved"}
    /\ \/ \E i \in 1..Len(transactions), j \in 1..Len(startups) :
             /\ transactions[i].status = "failed"
             /\ startups[j].firebaseId = transactions[i].startupId
       \/ \E i \in 1..Len(fsTransactions) :
             /\ fsTransactions[i].status = "failed"
             /\ fsStartups[fsTransactions[i].startupId] # Missing
             /\ fsStartups[fsTransactions[i].startupId].fundingRaised > 0

\* C21: in both ledgers, a createTransaction that names a startup that does
\* not exist stores no transaction and changes no startup's fundingRaised
\* or investors.
C21_CreateForMissingStartupStoresNothing ==
    [][/\ Len(transactions') > Len(transactions) =>
            \E i \in 1..Len(startups) :
                startups[i].firebaseId = transactions'[Len(transactions')].startupId
       /\ Len(fsTransactions') > Len(fsTransactions) =>
            fsStartups[fsTransactions'[Len(fsTransactions')].startupId] # Missing]_vars

\* The answer the routes give for a record that does not exist
\* (GET /api/startups/:id, PATCH /api/transactions/:id/status).
NotFound == "404"

\* C22: server: a stats request for an id with no startup is answered with
\* the NotFound answer, which no other failure shares, and changes no state.
C22_StatsForMissingStartupIsNotFound ==
    [][(lastCall'.op = "getStartupStats" /\ lastCall'.result = Missing)
          => (response' = NotFound /\ UNCHANGED srvVars)]_vars

\* What the caller is told when a reversal had to be floored at zero.
AggregateIntegrityWarning == "AggregateIntegrityWarning"

\* C23: client ledger: when the revert branch of updateTransactionStatus
\* subtracts an amount larger than the fundingRaised it read, fundingRaised
\* is written as zero and the call ends with AggregateIntegrityWarning.
C23_ClampIsReported ==
    [][\A c \in 1..MaxInFlight :
          (/\ calls[c].pc = "revertWrite"
           /\ calls'[c] = Idle
           /\ calls[c].startupData.fundingRaised < calls[c].transactionData.amount)
              => /\ fsStartups'[calls[c].transactionData.startupId].fundingRaised = 0
                 /\ response' = AggregateIntegrityWarning]_vars

\* The fields of a transaction that identify the investment.
InvestmentFields(t) ==
    <<t.id, t.startupId, t.investorId, t.amount, t.method, t.createdAt>>

\* C24: in both ledgers, an updateTransactionStatus call leaves the id,
\* startupId, investorId, amount, method and createdAt of every stored
\* transaction as they were, and stores no new transaction.
C24_UpdateKeepsInvestmentFields ==
    [][lastCall'.op = "updateTransactionStatus" =>
          /\ Len(transactions') = Len(transactions)
          /\ Len(fsTransactions') = Len(fsTransactions)
          /\ \A i \in 1..Len(transactions) :
                InvestmentFields(transactions'[i]) = InvestmentFields(transactions[i])
          /\ \A i \in 1..Len(fsTransactions) :
                InvestmentFields(fsTransactions'[i]) = InvestmentFields(fsTransactions[i])]_vars

\* An update call has just changed the status of the only client
\* transaction, whose investment fields are those it was created with.
C24_Witness ==
    /\ ledger = "client"
    /\ lastCall.op = "updateTransactionStatus"
    /\ lastCall.previousStatus \in Statuses
    /\ lastCall.status # lastCall.previousStatus
    /\ response = "resolved"
    /\ Len(fsTransactions) = 1
    /\ fsTransactions[1].status = lastCall.status
    /\ InvestmentFields(fsTransactions[1]) = <<1, "s1", "i1", 1, "metamask", 1>>

\* C25: in both ledgers, a transaction whose transactionId is set before an
\* updateTransactionStatus call still has a transactionId after it.
C25_RailReferenceNeverCleared ==
    [][lastCall'.op = "updateTransactionStatus" =>
          /\ \A i \in 1..Len(transactions) :
                transactions[i].transactionId # None
                    => transactions'[i].transactionId # None
          /\ \A i \in 1..Len(fsTransactions) :
                fsTransactions[i].transactionId # None
                    => fsTransactions'[i].transactionId # None]_vars

\* An update call has just changed the status of the only server
\* transaction, which carries a rail reference.
C25_Witness ==
    /\ ledger = "server"
    /\ lastCall.op = "updateTransactionStatus"
    /\ lastCall.previousStatus \in Statuses
    /\ lastCall.status # lastCall.previousStatus
    /\ response = "200"
    /\ Len(transactions) = 1
    /\ transactions[1].status = lastCall.status
    /\ transactions[1].transactionId = "h1"

\* Call c is at the write of updateStartupFunding, for a transaction of the
\* campaign with this firebaseId.
FundingWriteFor(c, firebaseId) ==
    /\ calls[c].pc = "funding"
    /\ calls[c].transaction.startupId = firebaseId

\* C26: server ledger, calls of two campaigns interleaved: whenever a
\* startup's fundingRaised or investors changes, the step is the funding
\* write of a call for a transaction of that startup's own campaign.
C26_OtherCampaignsUntouched ==
    [][\A i \in 1..Len(startups) :
          (\/ startups'[i].fundingRaised # startups[i].fundingRaised
           \/ startups'[i].investors # startups[i].investors)
              => \E c \in 1..MaxInFlight :
                    /\ FundingWriteFor(c, startups[i].firebaseId)
                    /\ calls'[c] = Idle]_vars

\* Two calls, one for each campaign, are both between their awaits while
\* both startups hold funding.
C26_Witness ==
    /\ \E c, d \in 1..MaxInFlight : FundingWriteFor(c, "s1") /\ FundingWriteFor(d, "s2")
    /\ Len(startups) = 2
    /\ \A i \in 1..Len(startups) : startups[i].fundingRaised > 0

C28_CompletedOnlyAfterReceipt ==
    [][Len(fsTransactions') = Len(fsTransactions) + 1
          => LET created == fsTransactions'[Len(fsTransactions')]
             IN  (created.method = "metamask" /\ created.status = "completed")
                    => (modal.outcome = "mined" /\ modal'.pc # "waiting")]_vars

\* C29: in both ledgers and in every reachable state, the investors value
\* getStartupStats returns for a startup equals the investors field stored
\* on that startup.
C29_StatsInvestorsMatchStored ==
    /\ \A i \in 1..Len(startups) :
          getStartupStats(startups, transactions, i).investors = startups[i].investors
    /\ \A s \in StartupIds :
          fsStartups[s] # Missing
              => fsGetStartupStats(fsStartups, fsTransactions, s).investors
                     = fsStartups[s].investors

\* C30: server ledger, profile updates and ledger calls interleaved: the
\* write of updateStartup leaves every startup's fundingRaised and investors
\* as they are, and the funding write of a ledger call leaves every
\* startup's fundingGoal and firebaseId as they are.
C30_ProfileAndAggregateIndependent ==
    [][\A c \in 1..MaxInFlight :
          /\ (calls[c].pc = "gotStartup" /\ calls'[c] = Idle)
                => \A i \in 1..Len(startups) :
                      /\ startups'[i].fundingRaised = startups[i].fundingRaised
                      /\ startups'[i].investors = startups[i].investors
          /\ (calls[c].pc = "funding" /\ calls'[c] = Idle)
                => \A i \in 1..Len(startups) :
                      /\ startups'[i].fundingGoal = startups[i].fundingGoal
                      /\ startups'[i].firebaseId = startups[i].firebaseId]_vars

\* C9: client ledger, two createTransaction calls for one startup by two
\* different investors, their Firestore requests interleaved: once both have
\* finished, fundingRaised has grown from 0 by the sum of the two amounts.
C9_ConcurrentCreatesBothCounted ==
    (/\ ledger = "client"
     /\ Quiescent
     /\ Len(fsTransactions) = 2
     /\ fsTransactions[1].startupId = fsTransactions[2].startupId
     /\ fsTransactions[1].investorId # fsTransactions[2].investorId
     /\ fsStartups[fsTransactions[1].startupId] # Missing)
        => fsStartups[fsTransactions[1].startupId].fundingRaised =
               fsTransactions[1].amount + fsTransactions[2].amount

====
